---- MODULE Spec2Model ----
(***************************************************************************)
(* Model of src/randomenv.cpp: the environment entropy collectors.         *)
(*                                                                         *)
(*   RandAddSeedPerfmon  the rate-limited performance-data source          *)
(*   AddFile             the bounded file reader                           *)
(*   AddAllCPUID         the CPUID leaf / sub-leaf enumeration             *)
(*   RandAddStaticEnv    the static collector (with AddPath, AddSockaddr)  *)
(*                                                                         *)
(* Each function is a small sequential process; its program counter names  *)
(* the source line it is about to execute.  The hasher (CSHA512) is an     *)
(* append-only sequence of the contributions written to it.                *)
(***************************************************************************)
EXTENDS Integers, Sequences, FiniteSets, TLC

(***************************************************************************)
(* Bounds of the model.                                                    *)
(***************************************************************************)
NThreads == 2
MaxCalls == 3
MaxTicks == 2
\* uint32_t is modelled WordBits bits wide; the top bit marks the extended
\* leaves (0x80000000 is 2^(WordBits-1)).
WordBits == 5
\* The counters of CPUID queries stop counting here.
QueryCap == 4
\* The most interfaces getifaddrs reports.
MaxIfs == 2
\* The most sources that fail in one run of RandAddStaticEnv.
MaxFail == 1

(***************************************************************************)
(* Program constants.                                                      *)
(***************************************************************************)
\* std::chrono::minutes{10}, in seconds
Cooldown == 600
\* std::vector<uint8_t> vData(250000, 0)
InitialSize == 250000
\* const size_t nMaxSize = 10000000
nMaxSize == 10000000
\* uint8_t fbuf[4096]
ReadChunk == 4096
\* total < 1048576
ReadCap == 1048576

VARIABLES
    \* ---- RandAddSeedPerfmon
    clock,          \* what GetTime<std::chrono::seconds>() returns
    ticks,          \* how many times the clock has advanced
    last_perfmon,   \* static std::atomic<std::chrono::seconds>
    active,         \* the threads that call RandAddSeedPerfmon
    pc,             \* per thread: the line it is at
    last_time,      \* per thread: auto last_time
    current_time,   \* per thread: auto current_time
    vsize,          \* per thread: vData.size()
    ret,            \* per thread: long ret
    nSize,          \* per thread: unsigned long nSize
    resizes,        \* per thread: vData.resize calls of the current call
    calls,          \* the calls that returned, in order of return
    \* ---- AddFile
    f_pc,           \* the line AddFile is at
    f_len,          \* the length of the file at path
    f_pos,          \* the file offset of the descriptor
    f_fd,           \* int f
    f_n,            \* int n
    f_total,        \* size_t total
    f_hashed,       \* what AddFile wrote to the hasher, in order
    f_payload,      \* the bytes of the file written to the hasher
    f_reads,        \* read() calls
    f_closes,       \* close() calls
    f_full,         \* every read() so far filled the buffer
    \* ---- AddAllCPUID
    c_pc,           \* the line AddAllCPUID is at
    c_leaf,         \* uint32_t leaf
    c_subleaf,      \* uint32_t subleaf
    c_ax,           \* uint32_t ax
    c_cx,           \* uint32_t cx
    c_max,          \* uint32_t max
    c_ext_max,      \* uint32_t ext_max
    c_std,          \* records written for leaves below 0x80000000
    c_ext,          \* records written for leaves from 0x80000000 on
    c_sub,          \* a record with a sub-leaf other than 0 was written
    \* ---- the getifaddrs loop of RandAddStaticEnv
    i_pc,           \* the line the loop is at
    i_list,         \* the interfaces of the machine
    i_base,         \* where getifaddrs allocates its list
    i_ifad,         \* struct ifaddrs *ifad
    i_ifit,         \* struct ifaddrs *ifit
    i_heap,         \* the addresses of the nodes allocated and not freed
    i_hashed,       \* what the loop wrote to the hasher, in order
    i_visits,       \* per node address: how often the loop read it
    i_frees,        \* freeifaddrs calls
    i_stale,        \* a node was read that was not allocated
    \* ---- RandAddStaticEnv, run twice
    s_run,          \* the run under way: 1, then 2
    s_pc,           \* the line RandAddStaticEnv is at
    s_os,           \* the platform the file is compiled for
    s_list,         \* the interfaces of the machine
    s_fail,         \* per run: the sources that fail
    s_where,        \* per run: the values that are not sources
    s_hashed        \* per run: what was written to the hasher, in order

perfVars == <<clock, ticks, last_perfmon, active, pc, last_time, current_time, vsize,
              ret, nSize, resizes, calls>>

fileVars == <<f_pc, f_len, f_pos, f_fd, f_n, f_total, f_hashed, f_payload,
              f_reads, f_closes, f_full>>

cpuVars == <<c_pc, c_leaf, c_subleaf, c_ax, c_cx, c_max, c_ext_max, c_std,
             c_ext, c_sub>>

ifVars == <<i_pc, i_list, i_base, i_ifad, i_ifit, i_heap, i_hashed, i_visits,
            i_frees, i_stale>>

staticVars == <<s_run, s_pc, s_os, s_list, s_fail, s_where, s_hashed>>

vars == <<perfVars, fileVars, cpuVars, ifVars, staticVars>>

\* What RandAddSeedPerfmon leaves alone.
notPerf == <<fileVars, cpuVars, ifVars, staticVars>>

\* What AddFile leaves alone.
notFile == <<perfVars, cpuVars, ifVars, staticVars>>

\* What AddAllCPUID leaves alone.
notCpu == <<perfVars, fileVars, ifVars, staticVars>>

\* What the getifaddrs loop leaves alone.
notIf == <<perfVars, fileVars, cpuVars, staticVars>>

\* What RandAddStaticEnv leaves alone.
notStatic == <<perfVars, fileVars, cpuVars, ifVars>>

Threads == 1..NThreads

Min(a, b) == IF a < b THEN a ELSE b
Max(a, b) == IF a < b THEN b ELSE a

(***************************************************************************)
(* RandAddSeedPerfmon                                                      *)
(***************************************************************************)
\* The results of RegQueryValueExA the code distinguishes.
QueryResults == {"ERROR_SUCCESS", "ERROR_MORE_DATA", "ERROR_OTHER"}

\* The advances of the clock between two steps, in seconds.
ClockSteps == {1, 300, 660}

ClockStarts == {300, 600, 1000}

PerfInit(thr, starts) ==
    /\ clock \in starts
    /\ ticks = 0
    /\ last_perfmon = 0
    /\ active = thr
    /\ pc = [t \in Threads |-> "idle"]
    /\ last_time = [t \in Threads |-> 0]
    /\ current_time = [t \in Threads |-> 0]
    /\ vsize = [t \in Threads |-> 0]
    /\ ret = [t \in Threads |-> "ERROR_SUCCESS"]
    /\ nSize = [t \in Threads |-> 0]
    /\ resizes = [t \in Threads |-> 0]
    /\ calls = <<>>

\* No thread ever calls RandAddSeedPerfmon.
PerfIdle == PerfInit({}, {0})

\* Time passes.
Tick ==
    /\ ticks < MaxTicks
    /\ ticks' = ticks + 1
    /\ \E d \in ClockSteps : clock' = clock + d
    /\ UNCHANGED <<last_perfmon, active, pc, last_time, current_time, vsize,
                   ret, nSize, resizes, calls>>
    /\ UNCHANGED notPerf

\* The record of a call that returns (its locals go out of scope).
CallRecord(t, collected, w) ==
    [thread |-> t, now |-> current_time[t], last |-> last_time[t],
     collected |-> collected, ret |-> ret[t], writes |-> w,
     resizes |-> resizes[t], last_after |-> last_perfmon]

\* auto last_time = last_perfmon.load();
Load(t) ==
    /\ t \in active
    /\ pc[t] = "idle"
    /\ Len(calls) + Cardinality({u \in Threads : pc[u] # "idle"}) < MaxCalls
    /\ last_time' = [last_time EXCEPT ![t] = last_perfmon]
    /\ pc' = [pc EXCEPT ![t] = "time"]
    /\ resizes' = [resizes EXCEPT ![t] = 0]
    /\ ret' = [ret EXCEPT ![t] = "ERROR_SUCCESS"]
    /\ UNCHANGED <<clock, ticks, last_perfmon, active, current_time, vsize, nSize,
                   calls>>
    /\ UNCHANGED notPerf

\* auto current_time = GetTime<std::chrono::seconds>();
ReadTime(t) ==
    /\ pc[t] = "time"
    /\ current_time' = [current_time EXCEPT ![t] = clock]
    /\ pc' = [pc EXCEPT ![t] = "gate"]
    /\ UNCHANGED <<clock, ticks, last_perfmon, active, last_time, vsize, ret, nSize,
                   resizes, calls>>
    /\ UNCHANGED notPerf

\* Faulty variant: the cooldown is left out of the comparison.
InCooldown_NoCooldown(cur, last) == cur < last

\* current_time < last_time + std::chrono::minutes{10}
InCooldown(cur, last) == cur < last + Cooldown

\* if (...) { return; }
Gate(t) ==
    /\ pc[t] = "gate"
    /\ IF InCooldown(current_time[t], last_time[t])
       THEN /\ pc' = [pc EXCEPT ![t] = "idle"]
            /\ calls' = Append(calls, CallRecord(t, FALSE, 0))
            /\ last_time' = [last_time EXCEPT ![t] = 0]
            /\ current_time' = [current_time EXCEPT ![t] = 0]
       ELSE /\ pc' = [pc EXCEPT ![t] = "store"]
            /\ UNCHANGED <<calls, last_time, current_time>>
    /\ UNCHANGED <<clock, ticks, last_perfmon, active, vsize, ret, nSize,
                   resizes>>
    /\ UNCHANGED notPerf

\* Faulty variant: the timestamp is not stored before the query.
Store_NotStored(t) ==
    /\ pc[t] = "store"
    /\ vsize' = [vsize EXCEPT ![t] = InitialSize]
    /\ ret' = [ret EXCEPT ![t] = "ERROR_SUCCESS"]
    /\ nSize' = [nSize EXCEPT ![t] = 0]
    /\ pc' = [pc EXCEPT ![t] = "query"]
    /\ UNCHANGED <<clock, ticks, last_perfmon, active, last_time,
                   current_time, resizes, calls>>
    /\ UNCHANGED notPerf

\* last_perfmon = current_time;  std::vector<uint8_t> vData(250000, 0);
\* long ret = 0;  unsigned long nSize = 0;
Store(t) ==
    /\ pc[t] = "store"
    /\ last_perfmon' = current_time[t]
    /\ vsize' = [vsize EXCEPT ![t] = InitialSize]
    /\ ret' = [ret EXCEPT ![t] = "ERROR_SUCCESS"]
    /\ nSize' = [nSize EXCEPT ![t] = 0]
    /\ pc' = [pc EXCEPT ![t] = "query"]
    /\ UNCHANGED <<clock, ticks, active, last_time, current_time, resizes, calls>>
    /\ UNCHANGED notPerf

\* vData.resize(std::max((vData.size() * 3) / 2, nMaxSize));
Resized(size) == Max((size * 3) \div 2, nMaxSize)

\* One iteration of while (true): the query, the exit test, the resize.
Query(t) ==
    /\ pc[t] = "query"
    /\ \E r \in QueryResults :
          /\ ret' = [ret EXCEPT ![t] = r]
          /\ nSize' = [nSize EXCEPT ![t] = vsize[t]]
          /\ IF r # "ERROR_MORE_DATA" \/ vsize[t] >= nMaxSize
             THEN /\ pc' = [pc EXCEPT ![t] = "close"]
                  /\ UNCHANGED <<vsize, resizes>>
             ELSE /\ vsize' = [vsize EXCEPT ![t] = Resized(vsize[t])]
                  /\ resizes' = [resizes EXCEPT ![t] = resizes[t] + 1]
                  /\ UNCHANGED pc
    /\ UNCHANGED <<clock, ticks, last_perfmon, active, last_time, current_time,
                   calls>>
    /\ UNCHANGED notPerf

\* RegCloseKey; if (ret == ERROR_SUCCESS) { hasher.Write(...); } else { }
Finish(t) ==
    /\ pc[t] = "close"
    /\ LET w == IF ret[t] = "ERROR_SUCCESS" THEN 1 ELSE 0
       IN calls' = Append(calls, CallRecord(t, TRUE, w))
    /\ pc' = [pc EXCEPT ![t] = "idle"]
    /\ last_time' = [last_time EXCEPT ![t] = 0]
    /\ current_time' = [current_time EXCEPT ![t] = 0]
    /\ vsize' = [vsize EXCEPT ![t] = 0]
    /\ nSize' = [nSize EXCEPT ![t] = 0]
    /\ UNCHANGED <<clock, ticks, last_perfmon, active, ret, resizes>>
    /\ UNCHANGED notPerf

(***************************************************************************)
(* AddFile                                                                 *)
(*                                                                         *)
(* size_t is 64 bits wide.  A size_t value v is held as the integer        *)
(* congruent to it modulo 2^64 in -2^63 .. 2^63 - 1, so that total += n    *)
(* with n = -1 is an ordinary subtraction and the unsigned comparison      *)
(* a < b reads: a is not in the upper half, and a < b.                     *)
(***************************************************************************)
\* The lengths of the file at path.
FileLens == {0, 1, 4095, 4096, 4097, 8192, 1048575, 1048576, 1048577,
             1052672, 5242880}

\* The descriptors open() returns.
Descriptors == {3, 4}

\* a < b on two size_t values, b below 2^63
SizeLess(a, b) == a >= 0 /\ a < b

FileIdle ==
    /\ f_pc = "idle"
    /\ f_len = 0
    /\ f_pos = 0
    /\ f_fd = -1
    /\ f_n = 0
    /\ f_total = 0
    /\ f_hashed = <<>>
    /\ f_payload = 0
    /\ f_reads = 0
    /\ f_closes = 0
    /\ f_full = TRUE

\* struct stat sb = {};  size_t total = 0;  before open() is called
FileInit ==
    /\ f_pc = "open"
    /\ f_len \in FileLens
    /\ f_pos = 0
    /\ f_fd = -1
    /\ f_n = 0
    /\ f_total = 0
    /\ f_hashed = <<>>
    /\ f_payload = 0
    /\ f_reads = 0
    /\ f_closes = 0
    /\ f_full = TRUE

\* int f = open(path, O_RDONLY);  if (f != -1) { hasher.Write(&f, sizeof(f));
FOpen ==
    /\ f_pc = "open"
    /\ \E d \in Descriptors \cup {-1} :
          /\ f_fd' = d
          /\ IF d # -1
             THEN /\ f_hashed' = Append(f_hashed, <<"fd", d>>)
                  /\ f_pc' = "fstat"
             ELSE /\ f_hashed' = f_hashed
                  /\ f_pc' = "done"
    /\ UNCHANGED <<f_len, f_pos, f_n, f_total, f_payload, f_reads, f_closes,
                   f_full>>
    /\ UNCHANGED notFile

\* if (fstat(f, &sb) == 0) { hasher << sb; }
FFstat ==
    /\ f_pc = "fstat"
    /\ \E ok \in BOOLEAN :
          f_hashed' = IF ok THEN Append(f_hashed, <<"stat", f_len>>)
                      ELSE f_hashed
    /\ f_pc' = "read"
    /\ UNCHANGED <<f_len, f_pos, f_fd, f_n, f_total, f_payload, f_reads,
                   f_closes, f_full>>
    /\ UNCHANGED notFile

\* What read(f, fbuf, sizeof(fbuf)) can return: an error, or a number of
\* bytes, at most those left in the file and at most sizeof(fbuf); zero
\* only at the end of the file.
ReadResults ==
    LET left == f_len - f_pos
        most == Min(left, ReadChunk)
    IN {-1} \cup {most} \cup {k \in {1, most - 1} : 1 <= k /\ k <= most}

\* Faulty variant: one chunk too many (<= for <).
KeepReading_Inclusive(n, total) == n = ReadChunk /\ (total >= 0 /\ total <= ReadCap)

\* while (n == sizeof(fbuf) && total < 1048576)
KeepReading(n, total) == n = ReadChunk /\ SizeLess(total, ReadCap)

\* do { n = read(...); if (n > 0) { hasher.Write(fbuf, n); } total += n; }
\* while (...): one iteration.
FRead ==
    /\ f_pc = "read"
    /\ \E n \in ReadResults :
          /\ f_n' = n
          /\ f_reads' = f_reads + 1
          /\ f_full' = (f_full /\ n = ReadChunk)
          /\ IF n > 0
             THEN /\ f_hashed' = Append(f_hashed, <<"data", f_pos, n>>)
                  /\ f_payload' = f_payload + n
                  /\ f_pos' = f_pos + n
             ELSE UNCHANGED <<f_hashed, f_payload, f_pos>>
          /\ f_total' = f_total + n
          /\ f_pc' = IF KeepReading(n, f_total + n) THEN "read" ELSE "close"
    /\ UNCHANGED <<f_len, f_fd, f_closes>>
    /\ UNCHANGED notFile

\* close(f);
FClose ==
    /\ f_pc = "close"
    /\ f_closes' = f_closes + 1
    /\ f_pc' = "done"
    /\ UNCHANGED <<f_len, f_pos, f_fd, f_n, f_total, f_hashed, f_payload,
                   f_reads, f_full>>
    /\ UNCHANGED notFile

FileNext ==
    \/ FOpen
    \/ FFstat
    \/ FRead
    \/ FClose

(***************************************************************************)
(* AddCPUID, AddAllCPUID                                                   *)
(***************************************************************************)
\* The number of values of a uint32_t.
Word == 2 ^ WordBits

\* 0x80000000
ExtBase == 2 ^ (WordBits - 1)

\* What CPUID can answer in ax for leaf 0.
MaxLeafAnswers == {0, 1, 4, 5, 11, 13, Word - 1}

\* What CPUID can answer in ax for leaf 0x80000000.
ExtMaxAnswers == {0, ExtBase, ExtBase + 1, ExtBase + 2, Word - 1}

\* What CPUID can answer in ax and cx for the other leaves.
AxAnswers == {0, 1}
CxAnswers == {0, 255, 256}

\* cx & 0xFF00
Bits8to15(cx) == (cx \div 256) % 256

\* One more record written, up to where the counters stop.
Counted(n) == Min(n + 1, QueryCap)

CpuIdle ==
    /\ c_pc = "idle"
    /\ c_leaf = 0
    /\ c_subleaf = 0
    /\ c_ax = 0
    /\ c_cx = 0
    /\ c_max = 0
    /\ c_ext_max = 0
    /\ c_std = 0
    /\ c_ext = 0
    /\ c_sub = FALSE

\* uint32_t ax, bx, cx, dx;  before the first query
CpuInit ==
    /\ c_pc = "leaf0"
    /\ c_leaf = 0
    /\ c_subleaf = 0
    /\ c_ax = 0
    /\ c_cx = 0
    /\ c_max = 0
    /\ c_ext_max = 0
    /\ c_std = 0
    /\ c_ext = 0
    /\ c_sub = FALSE

\* AddCPUID(hasher, 0, 0, ax, bx, cx, dx);  uint32_t max = ax;  leaf = 1
CLeaf0 ==
    /\ c_pc = "leaf0"
    /\ \E a \in MaxLeafAnswers, c \in CxAnswers :
          /\ c_ax' = a
          /\ c_cx' = c
          /\ c_max' = a
    /\ c_std' = Counted(c_std)
    /\ c_leaf' = 1
    /\ c_pc' = "std"
    /\ UNCHANGED <<c_subleaf, c_ext_max, c_ext, c_sub>>
    /\ UNCHANGED notCpu

\* Faulty variant: the loops run one leaf too far.
LeafInRange_OneMore(leaf, max) == leaf <= max + 1

\* leaf <= max, leaf <= ext_max
LeafInRange(leaf, max) == leaf <= max

\* for (uint32_t leaf = 1; leaf <= max; ...): the test;  subleaf = 0
CStdTest ==
    /\ c_pc = "std"
    /\ IF LeafInRange(c_leaf, c_max)
       THEN /\ c_subleaf' = 0
            /\ c_pc' = "sub"
       ELSE /\ c_pc' = "ext0"
            /\ UNCHANGED c_subleaf
    /\ UNCHANGED <<c_leaf, c_ax, c_cx, c_max, c_ext_max, c_std, c_ext, c_sub>>
    /\ UNCHANGED notCpu

\* The three break statements of the sub-leaf loop.
SubleafBreak(leaf, ax, cx) ==
    \/ leaf # 4 /\ leaf # 11 /\ leaf # 13
    \/ (leaf = 4 \/ leaf = 13) /\ ax = 0
    \/ leaf = 11 /\ Bits8to15(cx) = 0

\* for (uint32_t subleaf = 0;; ++subleaf) { AddCPUID(...); if ... break; }
\* one iteration, and ++leaf when it breaks
CSub ==
    /\ c_pc = "sub"
    /\ \E a \in AxAnswers, c \in CxAnswers :
          /\ c_ax' = a
          /\ c_cx' = c
          /\ IF SubleafBreak(c_leaf, a, c)
             THEN /\ c_leaf' = (c_leaf + 1) % Word
                  /\ c_pc' = "std"
                  /\ UNCHANGED c_subleaf
             ELSE /\ c_subleaf' = (c_subleaf + 1) % Word
                  /\ UNCHANGED <<c_leaf, c_pc>>
    /\ c_std' = Counted(c_std)
    /\ c_sub' = (c_sub \/ c_subleaf # 0)
    /\ UNCHANGED <<c_max, c_ext_max, c_ext>>
    /\ UNCHANGED notCpu

\* AddCPUID(hasher, 0x80000000, 0, ax, bx, cx, dx);  uint32_t ext_max = ax;
\* leaf = 0x80000001
CExt0 ==
    /\ c_pc = "ext0"
    /\ \E a \in ExtMaxAnswers, c \in CxAnswers :
          /\ c_ax' = a
          /\ c_cx' = c
          /\ c_ext_max' = a
    /\ c_ext' = Counted(c_ext)
    /\ c_leaf' = (ExtBase + 1) % Word
    /\ c_pc' = "ext"
    /\ UNCHANGED <<c_subleaf, c_max, c_std, c_sub>>
    /\ UNCHANGED notCpu

\* for (uint32_t leaf = 0x80000001; leaf <= ext_max; ++leaf) {
\*     AddCPUID(hasher, leaf, 0, ax, bx, cx, dx); }
\* the test and, when it holds, one iteration
CExt ==
    /\ c_pc = "ext"
    /\ IF LeafInRange(c_leaf, c_ext_max)
       THEN /\ \E a \in AxAnswers, c \in CxAnswers :
                  /\ c_ax' = a
                  /\ c_cx' = c
            /\ IF c_leaf >= ExtBase
               THEN c_ext' = Counted(c_ext) /\ UNCHANGED c_std
               ELSE c_std' = Counted(c_std) /\ UNCHANGED c_ext
            /\ c_leaf' = (c_leaf + 1) % Word
            /\ UNCHANGED c_pc
       ELSE /\ c_pc' = "done"
            /\ UNCHANGED <<c_leaf, c_ax, c_cx, c_std, c_ext>>
    /\ UNCHANGED <<c_subleaf, c_max, c_ext_max, c_sub>>
    /\ UNCHANGED notCpu

CpuNext ==
    \/ CLeaf0
    \/ CStdTest
    \/ CSub
    \/ CExt0
    \/ CExt

(***************************************************************************)
(* AddSockaddr and the getifaddrs loop of RandAddStaticEnv                 *)
(*                                                                         *)
(* A pointer is the address it holds, 0 for NULL.  getifaddrs allocates    *)
(* the nodes of its list at i_base + 1, i_base + 2, ... and links each to  *)
(* the next.                                                               *)
(***************************************************************************)
\* A contribution to the hasher: the source that has to succeed for it
\* to be written (its kind and name; "always" when there is none), the
\* datum written, and its value where the value is not a source.
Tok(kind, name, what, value) == <<kind, name, what, value>>

\* The interfaces the machine can have: ifa_name, ifa_flags and the
\* sa_family of ifa_addr, ifa_netmask and ifa_dstaddr ("NULL" for a null
\* pointer).
IfKinds ==
    {[name |-> "lo", flags |-> 73,
      addr |-> "AF_INET", netmask |-> "AF_INET6", dstaddr |-> "NULL"],
     [name |-> "eth0", flags |-> 4163,
      addr |-> "AF_PACKET", netmask |-> "NULL", dstaddr |-> "AF_INET"]}

RECURSIVE SeqsUpTo(_, _)
SeqsUpTo(S, n) ==
    IF n = 0 THEN {<<>>}
    ELSE LET shorter == SeqsUpTo(S, n - 1)
         IN shorter \cup {Append(q, x) : q \in {r \in shorter : Len(r) = n - 1},
                                         x \in S}

\* The lists getifaddrs can report.
IfLists == SeqsUpTo(IfKinds, MaxIfs)

\* Where getifaddrs can allocate its list.
IfBases == {16, 32}

\* The address of the k-th node of a list allocated at base; NULL past its end.
NodeAddr(base, list, k) == IF 1 <= k /\ k <= Len(list) THEN base + k ELSE 0

\* void AddSockaddr(CSHA512 &hasher, const struct sockaddr *addr)
AddSockaddr(family) ==
    IF family = "NULL" THEN <<>>
    ELSE IF family = "AF_INET"
         THEN <<Tok("call", "getifaddrs", "sockaddr_in", 0)>>
    ELSE IF family = "AF_INET6"
         THEN <<Tok("call", "getifaddrs", "sockaddr_in6", 0)>>
    ELSE <<Tok("call", "getifaddrs", "sa_family", 0)>>

\* The body of while (ifit != NULL), but for ifit = ifit->ifa_next.
NodeWrites(ifit, node) ==
    <<Tok("call", "getifaddrs", "ifit", ifit),
      Tok("call", "getifaddrs", node.name, 0),
      Tok("call", "getifaddrs", "ifa_flags", node.flags)>>
       \o AddSockaddr(node.addr)
       \o AddSockaddr(node.netmask)
       \o AddSockaddr(node.dstaddr)

IfIdle ==
    /\ i_pc = "idle"
    /\ i_list = <<>>
    /\ i_base = 0
    /\ i_ifad = 0
    /\ i_ifit = 0
    /\ i_heap = {}
    /\ i_hashed = <<>>
    /\ i_visits = <<>>
    /\ i_frees = 0
    /\ i_stale = FALSE

\* struct ifaddrs *ifad = NULL;
IfInit ==
    /\ i_pc = "getifaddrs"
    /\ i_list \in IfLists
    /\ i_base \in IfBases
    /\ i_ifad = 0
    /\ i_ifit = 0
    /\ i_heap = {}
    /\ i_hashed = <<>>
    /\ i_visits = [k \in 1..Len(i_list) |-> 0]
    /\ i_frees = 0
    /\ i_stale = FALSE

\* getifaddrs(&ifad);  struct ifaddrs *ifit = ifad;
IGet ==
    /\ i_pc = "getifaddrs"
    /\ \E ok \in BOOLEAN :
          IF ok
          THEN /\ i_ifad' = NodeAddr(i_base, i_list, 1)
               /\ i_ifit' = NodeAddr(i_base, i_list, 1)
               /\ i_heap' = {NodeAddr(i_base, i_list, k) : k \in 1..Len(i_list)}
          ELSE /\ i_ifad' = 0
               /\ i_ifit' = 0
               /\ i_heap' = {}
    /\ i_pc' = "loop"
    /\ UNCHANGED <<i_list, i_base, i_hashed, i_visits, i_frees, i_stale>>
    /\ UNCHANGED notIf

\* Faulty variant: the loop stops at the last node instead of after it.
MoreNodes_StopsAtLast(ifit) == ifit # 0 /\ ifit # i_base + Len(i_list)

\* ifit != NULL
MoreNodes(ifit) == ifit # 0

\* while (ifit != NULL) { ...; ifit = ifit->ifa_next; }: the test and, when
\* it holds, one iteration
IVisit ==
    /\ i_pc = "loop"
    /\ IF MoreNodes(i_ifit)
       THEN LET k == i_ifit - i_base
            IN /\ i_stale' = (i_stale \/ i_ifit \notin i_heap)
               /\ i_hashed' = i_hashed \o NodeWrites(i_ifit, i_list[k])
               /\ i_visits' = [i_visits EXCEPT ![k] = i_visits[k] + 1]
               /\ i_ifit' = NodeAddr(i_base, i_list, k + 1)
               /\ UNCHANGED i_pc
       ELSE /\ i_pc' = "freeifaddrs"
            /\ UNCHANGED <<i_stale, i_hashed, i_visits, i_ifit>>
    /\ UNCHANGED <<i_list, i_base, i_ifad, i_heap, i_frees>>
    /\ UNCHANGED notIf

\* freeifaddrs(ifad);
IFree ==
    /\ i_pc = "freeifaddrs"
    /\ i_heap' = {}
    /\ i_frees' = i_frees + 1
    /\ i_pc' = "done"
    /\ UNCHANGED <<i_list, i_base, i_ifad, i_ifit, i_hashed, i_visits, i_stale>>
    /\ UNCHANGED notIf

IfNext ==
    \/ IGet
    \/ IVisit
    \/ IFree

(***************************************************************************)
(* AddPath, AddFile, AddSysctl and RandAddStaticEnv as a whole             *)
(*                                                                         *)
(* RandAddStaticEnv is run twice, each run on a hasher of its own.  What   *)
(* a run writes is a function of the sources (the platform, the           *)
(* interfaces, which sources fail) and of the values that are not         *)
(* sources: where the hasher is, the descriptor open() returns, where     *)
(* getifaddrs allocates, and what the uninitialised locals hold.          *)
(***************************************************************************)
\* The platforms: Linux has the auxiliary vector and /proc, the BSDs have
\* sysctl.
Oses == {"linux", "bsd"}

\* The values that are not sources, of the first run.
Where1 == [hasher |-> 1, fd |-> 3, node |-> 16, stack |-> 0]

\* Those of the second run: the same, or another in one respect.
Wheres ==
    {Where1,
     [Where1 EXCEPT !.hasher = 2],
     [Where1 EXCEPT !.fd = 4],
     [Where1 EXCEPT !.node = 32],
     [Where1 EXCEPT !.stack = 1]}

\* AddPath(hasher, "/"); ... AddPath(hasher, "/proc");
Paths == <<"/", ".", "/tmp", "/home", "/proc">>

\* #ifdef __linux__ AddFile(hasher, "/proc/cmdline"); ...
ProcFiles == <<"/proc/cmdline", "/proc/cpuinfo", "/proc/version">>

\* AddFile(hasher, "/etc/passwd"); ... AddFile(hasher, "/etc/localtime");
EtcFiles == <<"/etc/passwd", "/etc/group", "/etc/hosts", "/etc/resolv.conf",
              "/etc/timezone", "/etc/localtime">>

\* AddSysctl<CTL_HW, HW_MACHINE>(hasher); ... in the order of the calls;
\* under KERN_POSIX1 the call is AddSysctl<CTL_KERN, KERN_OSREV> again.
Sysctls ==
    <<"HW_MACHINE", "HW_MODEL", "HW_NCPU", "HW_PHYSMEM", "HW_USERMEM",
      "HW_MACHINE_ARCH", "HW_REALMEM", "HW_CPU_FREQ", "HW_BUS_FREQ",
      "HW_CACHELINE", "KERN_BOOTFILE", "KERN_BOOTTIME", "KERN_CLOCKRATE",
      "KERN_HOSTID", "KERN_HOSTUUID", "KERN_HOSTNAME", "KERN_OSRELDATE",
      "KERN_OSRELEASE", "KERN_OSREV", "KERN_OSTYPE", "KERN_OSREV",
      "KERN_VERSION">>

Range(q) == {q[k] : k \in 1..Len(q)}

\* The files RandAddStaticEnv reads on a platform.
FilesOf(os) == IF os = "linux" THEN ProcFiles \o EtcFiles ELSE EtcFiles

\* The sources of a platform that can fail or be absent.
Failable(os) ==
    {<<"call", c>> : c \in {"gethostname", "getifaddrs", "uname", "environ"}}
       \cup {<<"stat", p>> : p \in Range(Paths)}
       \cup {<<"open", f>> : f \in Range(FilesOf(os))}
       \cup {<<"fstat", f>> : f \in Range(FilesOf(os))}
       \cup (IF os = "linux"
             THEN {<<"auxv", a>> : a \in {"AT_RANDOM", "AT_PLATFORM", "AT_EXECFN"}}
             ELSE {<<"sysctl", n>> : n \in Range(Sysctls)})

RECURSIVE SubsetsUpTo(_, _)
SubsetsUpTo(S, n) ==
    IF n = 0 THEN {{}}
    ELSE LET smaller == SubsetsUpTo(S, n - 1)
         IN smaller \cup {r \cup {x} : r \in smaller, x \in S}

\* The concatenation of the sequences of a sequence.
RECURSIVE Flatten(_)
Flatten(qs) == IF qs = <<>> THEN <<>> ELSE Head(qs) \o Flatten(Tail(qs))

\* The contribution of a source that can fail: nothing when it fails.
Unless(fail, src, toks) == IF src \in fail THEN <<>> ELSE toks

\* Something written whatever the sources do.
Always(what) == Tok("always", "", what, 0)

\* hasher << (CHAR_MIN < 0) << sizeof(void *) << ... << CLIENT_VERSION;
StaticProperties ==
    <<Always("CHAR_MIN < 0"), Always("sizeof(void *)"),
      Always("sizeof(long)"), Always("sizeof(int)"), Always("__GNUC__"),
      Always("__GNUC_MINOR__"), Always("__GNUC_PATCHLEVEL__"),
      Always("__cplusplus"), Always("_XOPEN_VERSION"),
      Always("__VERSION__"), Always("CLIENT_VERSION")>>

\* if (ptr) { hasher.Write(ptr, ...); } of one getauxval() pointer
AuxvPointer(fail, name) ==
    Unless(fail, <<"auxv", name>>, <<Tok("auxv", name, "contents", 0)>>)

\* #ifdef __linux__: getauxval(AT_HWCAP), ..., getauxval(AT_EXECFN)
AuxvWrites(os, fail) ==
    IF os # "linux" THEN <<>>
    ELSE <<Always("AT_HWCAP"), Always("AT_HWCAP2")>>
            \o AuxvPointer(fail, "AT_RANDOM")
            \o AuxvPointer(fail, "AT_PLATFORM")
            \o AuxvPointer(fail, "AT_EXECFN")

\* AddAllCPUID(hasher), of a CPU that answers 0 in ax to leaf 0 and
\* 0x80000000 to leaf 0x80000000: a record for each of the two leaves
CpuidWrites ==
    <<Tok("always", "", "cpuid", 0), Tok("always", "", "cpuid", ExtBase)>>

\* hasher << &hasher << &RandAddStaticEnv << &malloc << &errno << &environ;
MemoryLocations(where) ==
    <<Tok("always", "", "&hasher", where.hasher),
      Always("&RandAddStaticEnv"), Always("&malloc"), Always("&errno"),
      Always("&environ")>>

\* Faulty variant: hname is written whether or not gethostname filled it.
Hostname_Unchecked(fail, where) ==
    IF <<"call", "gethostname">> \in fail
    THEN <<Tok("always", "", "hname", where.stack)>>
    ELSE <<Tok("call", "gethostname", "hname", 0)>>

\* char hname[256];  if (gethostname(hname, 256) == 0) { hasher.Write(...); }
Hostname(fail, where) ==
    Unless(fail, <<"call", "gethostname">>,
           <<Tok("call", "gethostname", "hname", 0)>>)

\* The getifaddrs loop, from its first node to the null pointer.
Interfaces(fail, list, where) ==
    Unless(fail, <<"call", "getifaddrs">>,
           Flatten([k \in 1..Len(list) |->
                       NodeWrites(NodeAddr(where.node, list, k), list[k])]))

\* struct utsname name;  if (uname(&name) != -1) { five hasher.Write }
Uname(fail) ==
    Unless(fail, <<"call", "uname">>,
           <<Tok("call", "uname", "sysname", 0),
             Tok("call", "uname", "nodename", 0),
             Tok("call", "uname", "release", 0),
             Tok("call", "uname", "version", 0),
             Tok("call", "uname", "machine", 0)>>)

\* Faulty variant: the path is written before stat() is asked.
AddPath_PathFirst(fail, path) ==
    <<Tok("stat", path, "path", 0)>>
       \o Unless(fail, <<"stat", path>>, <<Tok("stat", path, "sb", 0)>>)

\* void AddPath(CSHA512 &hasher, const char *path)
AddPath(fail, path) ==
    Unless(fail, <<"stat", path>>,
           <<Tok("stat", path, "path", 0), Tok("stat", path, "sb", 0)>>)

\* void AddFile(CSHA512 &hasher, const char *path): the descriptor, the
\* result of fstat, and the first ReadCap bytes of the file
AddFile(fail, where, path) ==
    Unless(fail, <<"open", path>>,
           <<Tok("open", path, "f", where.fd)>>
              \o Unless(fail, <<"fstat", path>>, <<Tok("fstat", path, "sb", 0)>>)
              \o <<Tok("open", path, "fbuf", 0)>>)

\* template <int... S> void AddSysctl(CSHA512 &hasher)
AddSysctl(fail, name) ==
    Unless(fail, <<"sysctl", name>>,
           <<Tok("sysctl", name, "sizeof(CTL)", 0),
             Tok("sysctl", name, "CTL", 0),
             Tok("sysctl", name, "siz", 0),
             Tok("sysctl", name, "buffer", 0)>>)

\* #if HAVE_SYSCTL: the AddSysctl calls
SysctlWrites(os, fail) ==
    IF os # "bsd" THEN <<>>
    ELSE Flatten([k \in 1..Len(Sysctls) |-> AddSysctl(fail, Sysctls[k])])

\* The environment of the process.
EnvironTable == <<"PATH=/bin", "HOME=/root">>

\* if (environ) { for (size_t i = 0; environ[i]; ++i) { hasher.Write } }
Environ(fail) ==
    Unless(fail, <<"call", "environ">>,
           [k \in 1..Len(EnvironTable) |->
               Tok("call", "environ", EnvironTable[k], 0)])

\* hasher << getpid() << ... << getegid();  hasher << this_thread::get_id();
Ids ==
    <<Always("getpid"), Always("getppid"), Always("getsid"),
      Always("getpgid"), Always("getuid"), Always("geteuid"),
      Always("getgid"), Always("getegid"), Always("get_id")>>

\* What one call of RandAddStaticEnv writes to its hasher, in order.
StaticEnvWrites(os, list, fail, where) ==
    StaticProperties
       \o AuxvWrites(os, fail)
       \o CpuidWrites
       \o MemoryLocations(where)
       \o Hostname(fail, where)
       \o Interfaces(fail, list, where)
       \o Uname(fail)
       \o Flatten([k \in 1..Len(Paths) |-> AddPath(fail, Paths[k])])
       \o Flatten([k \in 1..Len(FilesOf(os)) |->
                      AddFile(fail, where, FilesOf(os)[k])])
       \o SysctlWrites(os, fail)
       \o Environ(fail)
       \o Ids

StaticIdle ==
    /\ s_run = 0
    /\ s_pc = "idle"
    /\ s_os = "linux"
    /\ s_list = <<>>
    /\ s_fail = <<{}, {}>>
    /\ s_where = <<Where1, Where1>>
    /\ s_hashed = <<<<>>, <<>>>>

\* Two fresh hashers; the first run is about to start.  The second run
\* meets the failures F, the first either the same or none.
StaticInit ==
    /\ s_run = 1
    /\ s_pc = "call"
    /\ s_os \in Oses
    /\ s_list \in IfLists
    /\ \E F \in SubsetsUpTo(Failable(s_os), MaxFail) :
          s_fail \in {<<{}, F>>, <<F, F>>}
    /\ s_where = <<Where1, Where1>>
    /\ s_hashed = <<<<>>, <<>>>>

\* RandAddStaticEnv(hasher), from its first line to its last.
RandAddStaticEnv ==
    /\ s_pc = "call"
    /\ s_hashed' = [s_hashed EXCEPT ![s_run] =
                       @ \o StaticEnvWrites(s_os, s_list, s_fail[s_run],
                                            s_where[s_run])]
    /\ s_pc' = "done"
    /\ UNCHANGED <<s_run, s_os, s_list, s_fail, s_where>>
    /\ UNCHANGED notStatic

\* The caller takes a second fresh hasher and calls RandAddStaticEnv again.
SecondRun ==
    /\ s_run = 1
    /\ s_pc = "done"
    /\ s_run' = 2
    /\ s_pc' = "call"
    /\ \E w \in Wheres : s_where' = [s_where EXCEPT ![2] = w]
    /\ UNCHANGED <<s_os, s_list, s_fail, s_hashed>>
    /\ UNCHANGED notStatic

StaticNext ==
    \/ RandAddStaticEnv
    \/ SecondRun

PerfStep(t) ==
    \/ Load(t)
    \/ ReadTime(t)
    \/ Gate(t)
    \/ Store(t)
    \/ Query(t)
    \/ Finish(t)

PerfNext ==
    \/ Tick
    \/ \E t \in Threads : Load(t)
    \/ \E t \in Threads : ReadTime(t)
    \/ \E t \in Threads : Gate(t)
    \/ \E t \in Threads : Store(t)
    \/ \E t \in Threads : Query(t)
    \/ \E t \in Threads : Finish(t)

\* One thread calling RandAddSeedPerfmon again and again.
SeqInit ==
    PerfInit({1}, ClockStarts) /\ FileIdle /\ CpuIdle /\ IfIdle /\ StaticIdle

SpecSeq == SeqInit /\ [][PerfNext]_vars

\* NThreads threads calling it concurrently.
ConcInit ==
    PerfInit(Threads, ClockStarts) /\ FileIdle /\ CpuIdle /\ IfIdle
       /\ StaticIdle

SpecConc == ConcInit /\ [][PerfNext]_vars

\* One call of AddFile.
AddFileInit == PerfIdle /\ FileInit /\ CpuIdle /\ IfIdle /\ StaticIdle

SpecFile == AddFileInit /\ [][FileNext]_vars

\* One call of AddAllCPUID.
CpuidInit == PerfIdle /\ FileIdle /\ CpuInit /\ IfIdle /\ StaticIdle

SpecCpuid == CpuidInit /\ [][CpuNext]_vars

\* AddAllCPUID runs on: the thread is not suspended for ever, and CPUID
\* always answers.
FairSpecCpuid == CpuidInit /\ [][CpuNext]_vars /\ WF_vars(CpuNext)

\* One pass through the getifaddrs loop.
IfaddrsInit == PerfIdle /\ FileIdle /\ CpuIdle /\ IfInit /\ StaticIdle

SpecIfaddrs == IfaddrsInit /\ [][IfNext]_vars

\* Two runs of RandAddStaticEnv.
StaticEnvInit ==
    PerfIdle /\ FileIdle /\ CpuIdle /\ IfIdle /\ StaticInit

SpecStatic == StaticEnvInit /\ [][StaticNext]_vars

(***************************************************************************)
(* Properties of RandAddSeedPerfmon                                        *)
(***************************************************************************)
CallIds == 1..Len(calls)

Collections(n) == Cardinality({i \in 1..n : calls[i].collected})

AllIdle == \A t \in Threads : pc[t] = "idle"

\* The size of the buffer after n resizes, were each one
\* min(3 * size / 2, nMaxSize).
RECURSIVE GrownSize(_)
GrownSize(n) ==
    IF n = 0 THEN InitialSize
    ELSE Min((GrownSize(n - 1) * 3) \div 2, nMaxSize)

\* C1: sequential calls in a fresh process.  The first call always
\* collects; a second call 5 minutes after the first makes no write and the
\* two calls collect exactly once; a second call 11 minutes after the first
\* makes the two calls collect exactly twice; and a call with
\* now < last + 10 minutes never touches the accumulator.
C1_RateLimiter ==
    /\ Len(calls) >= 1 => calls[1].collected
    /\ (Len(calls) >= 2 /\ calls[2].now = calls[1].now + 300)
          => (calls[2].writes = 0 /\ Collections(2) = 1)
    /\ (Len(calls) >= 2 /\ calls[2].now = calls[1].now + 660)
          => Collections(2) = 2
    /\ \A i \in CallIds :
          InCooldown(calls[i].now, calls[i].last)
             => (~calls[i].collected /\ calls[i].writes = 0)

\* C2 as stated: last_perfmon is set to now only by a call whose query
\* succeeded and was written to the accumulator; a call whose query failed
\* leaves it unchanged, so that the next call collects again.
C2_SetOnlyOnSuccess ==
    /\ \A i \in CallIds :
          (calls[i].last_after # calls[i].last)
             => (calls[i].ret = "ERROR_SUCCESS" /\ calls[i].writes = 1)
    /\ \A i \in CallIds :
          (calls[i].collected /\ calls[i].ret # "ERROR_SUCCESS"
              /\ i + 1 <= Len(calls))
             => calls[i + 1].collected

\* C2 amended: last_perfmon is set to now by every call that passes the
\* cooldown test, before the query runs and whatever the query returns; a
\* call that is in its cooldown leaves it unchanged.  After a failed query
\* the failure is swallowed (nothing is written) and a call less than 10
\* minutes later is suppressed.
C2_SetBeforeQuery ==
    /\ \A t \in Threads :
          pc[t] \in {"query", "close"} => last_perfmon = current_time[t]
    /\ \A i \in CallIds :
          /\ calls[i].collected => calls[i].last_after = calls[i].now
          /\ ~calls[i].collected => calls[i].last_after = calls[i].last
          /\ calls[i].ret # "ERROR_SUCCESS" => calls[i].writes = 0
    /\ \A i \in CallIds :
          (calls[i].collected /\ calls[i].ret # "ERROR_SUCCESS"
              /\ i + 1 <= Len(calls)
              /\ calls[i + 1].now < calls[i].now + Cooldown)
             => ~calls[i + 1].collected

\* A failed collection followed, one second later, by a suppressed call.
C2_Witness ==
    \E i \in CallIds :
       /\ calls[i].collected
       /\ calls[i].ret # "ERROR_SUCCESS"
       /\ i + 1 <= Len(calls)
       /\ calls[i + 1].now = calls[i].now + 1
       /\ ~calls[i + 1].collected

\* The values of now that some caller has read.
NowsRead ==
    {calls[i].now : i \in CallIds}
       \cup {current_time[t] : t \in {u \in Threads : pc[u] \notin {"idle", "time"}}}

\* C8: concurrent callers.  (1) last_perfmon is the initial value or a now
\* that some caller read; (2) a caller that loaded last with
\* now < last + 10 minutes never collects; (3) when the callers of one due
\* window have all returned, at least one and at most all of them have
\* collected; (4) a caller inside the function can always take its next
\* step, whatever the other callers are doing.
C8_ConcurrentCallers ==
    /\ last_perfmon = 0 \/ last_perfmon \in NowsRead
    /\ \A i \in CallIds :
          calls[i].now < calls[i].last + Cooldown => ~calls[i].collected
    /\ \A t \in Threads :
          pc[t] \in {"store", "query", "close"}
             => current_time[t] >= last_time[t] + Cooldown
    /\ (AllIdle /\ Len(calls) >= 1
           /\ \A i \in CallIds : calls[i].now >= Cooldown)
          => (Collections(Len(calls)) >= 1
                /\ Collections(Len(calls)) <= Len(calls))
    /\ \A t \in active : pc[t] # "idle" => ENABLED PerfStep(t)

\* Two threads that raced in one due window and both collected.
C8_Witness ==
    /\ AllIdle
    /\ Len(calls) = 2
    /\ calls[1].thread # calls[2].thread
    /\ calls[1].collected /\ calls[2].collected
    /\ calls[1].now = calls[2].now

\* C10: each resize takes the buffer to min(3 * size / 2, nMaxSize), and
\* the buffer never exceeds nMaxSize.
C10_BufferGrowth ==
    \A t \in Threads :
       pc[t] \in {"query", "close"}
          => (vsize[t] = GrownSize(resizes[t]) /\ vsize[t] <= nMaxSize)

(***************************************************************************)
(* Properties of AddFile                                                   *)
(***************************************************************************)
\* C4: the payload absorbed from one file never exceeds ReadCap; a file of
\* 5 MiB whose reads all fill the buffer yields exactly ReadCap bytes; no
\* read follows an end of stream, a short read or an error; and the
\* descriptor opened is closed exactly once (none is closed when open
\* failed).
C4_BoundedRead ==
    /\ f_payload <= ReadCap
    /\ (f_pc = "done" /\ f_fd # -1 /\ f_len = 5 * ReadCap /\ f_full)
          => f_payload = ReadCap
    /\ (f_reads >= 1 /\ f_n # ReadChunk) => f_pc \in {"close", "done"}
    /\ f_reads * ReadChunk <= ReadCap
    /\ f_closes = (IF f_pc = "done" /\ f_fd # -1 THEN 1 ELSE 0)

\* The 5 MiB file read in full chunks up to the cap, and closed.
C4_Witness ==
    /\ f_pc = "done"
    /\ f_len = 5 * ReadCap
    /\ f_full
    /\ f_payload = ReadCap
    /\ f_closes = 1

(***************************************************************************)
(* Properties of AddAllCPUID                                               *)
(***************************************************************************)
\* The extended leaves above 0x80000000 that ext_max announces.
ExtLeaves == IF c_ext_max > ExtBase THEN c_ext_max - ExtBase ELSE 0

\* C3: whatever CPUID answers, the enumeration ends: AddAllCPUID
\* eventually returns.
C3_Terminates == <>(c_pc = "done")

\* C7 as stated: when leaf 0 reports max leaf 0, AddAllCPUID has written
\* exactly one record when it returns.
C7_ExactlyOneRecord ==
    (c_pc = "done" /\ c_max = 0) => (c_std + c_ext = 1)

\* C7 amended: when leaf 0 reports max leaf 0, the pass over the standard
\* leaves writes exactly one record (leaf 0) and iterates over no sub-leaf;
\* the extended leaves are still queried after it, so that on return one
\* record is written for leaf 0, one for leaf 0x80000000 and one for each
\* extended leaf up to the ext_max reported: at least two records in all.
C7_OneStandardRecord ==
    (c_pc \notin {"idle", "leaf0"} /\ c_max = 0)
       => /\ c_pc # "sub"
          /\ ~c_sub
          /\ c_pc \in {"std", "ext0"} => (c_std = 1 /\ c_ext = 0)
          /\ c_pc = "done"
                => (c_std = 1 /\ c_ext = Min(1 + ExtLeaves, QueryCap))

\* Max leaf 0, and two extended leaves: four records on return.
C7_Witness ==
    /\ c_pc = "done"
    /\ c_max = 0
    /\ c_ext_max = ExtBase + 2
    /\ c_std = 1
    /\ c_ext = 3

(***************************************************************************)
(* Properties of the getifaddrs loop                                       *)
(***************************************************************************)
\* C9: the loop reads each node of the list exactly once and stops at the
\* null pointer; with no interface, or when getifaddrs fails and leaves
\* ifad null, nothing is written; and freeifaddrs is called exactly once on
\* every path, after the last node was read: no node is read once the list
\* is released.
C9_InterfaceList ==
    /\ ~i_stale
    /\ \A k \in 1..Len(i_list) : i_visits[k] <= 1
    /\ i_pc \in {"freeifaddrs", "done"}
          => /\ i_ifit = 0
             /\ \A k \in 1..Len(i_list) :
                   i_visits[k] = (IF i_ifad # 0 THEN 1 ELSE 0)
    /\ i_ifad = 0 => i_hashed = <<>>
    /\ i_frees = (IF i_pc = "done" THEN 1 ELSE 0)
    /\ i_pc = "done" => i_heap = {}

\* A list of two interfaces, walked and released.
C9_Witness ==
    /\ i_pc = "done"
    /\ Len(i_list) = 2
    /\ i_ifad # 0
    /\ i_visits = <<1, 1>>
    /\ i_frees = 1

(***************************************************************************)
(* Properties of RandAddStaticEnv                                          *)
(***************************************************************************)
\* Both runs have returned.
BothDone == s_run = 2 /\ s_pc = "done"

\* The contribution comes from a source of F: the source it is guarded by,
\* or, for the result of fstat, the open() before it.
Removed(tok, F) ==
    \/ <<tok[1], tok[2]>> \in F
    \/ tok[1] = "fstat" /\ <<"open", tok[2]>> \in F

C6_SameBytes ==
    (BothDone /\ s_fail[1] = s_fail[2]) => s_hashed[1] = s_hashed[2]

\* C6 amended: two runs with the same sources write the same bytes when
\* the hasher is at the same address in both, open() returns the same
\* descriptors and getifaddrs allocates its nodes at the same addresses;
\* what the uninitialised locals hold makes no difference.  Two runs whose
\* hashers are at different addresses write different bytes.
C6_SameBytesSameAddresses ==
    (BothDone /\ s_fail[1] = s_fail[2])
       => /\ (/\ s_where[1].hasher = s_where[2].hasher
              /\ s_where[1].fd = s_where[2].fd
              /\ s_where[1].node = s_where[2].node)
                => s_hashed[1] = s_hashed[2]
          /\ s_where[1].hasher # s_where[2].hasher
                => s_hashed[1] # s_hashed[2]

\* Two runs with a failing source and different stack contents, the same
\* bytes.
C6_Witness ==
    /\ BothDone
    /\ s_fail[1] = s_fail[2]
    /\ s_fail[1] # {}
    /\ s_where[1].stack # s_where[2].stack
    /\ s_hashed[1] = s_hashed[2]

====
